---- MODULE Spec2Model ----
\* Variant generation and grading engine of TeacherTest (src/core/processor.py):
\* _process_optional_questions, generate_test_variants, create_excel_answer_key
\* and check_student_answers, with the answer-line parsing of the two
\* applications that call the grader (src/app/app.py, src/main.py).
\*
\* Conventions of the model
\*  - A Python str is a sequence of one-character strings (<<"A","B">> is "AB").
\*  - The 27 Cyrillic option letters are written with Latin stand-ins: the model
\*    keeps the first four ("A","B","C","D"); "a".."d" are their lower-case
\*    forms; "x"/"X" is a character outside the option alphabet.
\*  - A weight (a Python float) is an integer number of tenths: 10 is 1.0.
\*  - A point value (a Python float) is an exact rational [n, d].
EXTENDS Integers, Sequences, FiniteSets, TLC

VARIABLES sheet, df, num_variants, question_shuffle_mode, answer_shuffle_mode,
          variant_num, processed_df, shuffled_df, variants, pc, answer_key_file,
          entry, call, result

vars == <<sheet, df, num_variants, question_shuffle_mode, answer_shuffle_mode,
          variant_num, processed_df, shuffled_df, variants, pc, answer_key_file,
          entry, call, result>>

\* ---------------------------------------------------------------------------
\* Python str and list primitives
\* ---------------------------------------------------------------------------

Min(a, b) == IF a <= b THEN a ELSE b

Range(s) == {s[i] : i \in DOMAIN s}

SeqsUpTo(S, lo, hi) == UNION {[1..n -> S] : n \in lo..hi}

RECURSIVE SumSeq(_)
SumSeq(s) == IF s = <<>> THEN 0 ELSE Head(s) + SumSeq(Tail(s))

RECURSIVE Concat(_)
Concat(ss) == IF ss = <<>> THEN <<>> ELSE Head(ss) \o Concat(Tail(ss))

\* str.upper() / str.lower() on one character
upper_char(c) ==
    CASE c = "a" -> "A" [] c = "b" -> "B" [] c = "c" -> "C" [] c = "d" -> "D"
      [] c = "x" -> "X" [] OTHER -> c

lower_char(c) ==
    CASE c = "A" -> "a" [] c = "B" -> "b" [] c = "C" -> "c" [] c = "D" -> "d"
      [] c = "X" -> "x" [] OTHER -> c

upper(s) == [i \in DOMAIN s |-> upper_char(s[i])]

lower(s) == [i \in DOMAIN s |-> lower_char(s[i])]

\* str.strip(): drops leading and trailing whitespace
RECURSIVE lstrip(_)
lstrip(s) == IF s # <<>> /\ Head(s) = " " THEN lstrip(Tail(s)) ELSE s

RECURSIVE rstrip(_)
rstrip(s) ==
    IF s # <<>> /\ s[Len(s)] = " " THEN rstrip(SubSeq(s, 1, Len(s) - 1)) ELSE s

strip(s) == rstrip(lstrip(s))

\* str.split(','): cuts at every comma, keeps empty fields, "" gives [""]
RECURSIVE split(_)
split(s) ==
    IF \E i \in DOMAIN s : s[i] = ","
    THEN LET i == CHOOSE k \in DOMAIN s :
                     s[k] = "," /\ \A j \in 1..(k - 1) : s[j] # ","
         IN <<SubSeq(s, 1, i - 1)>> \o split(SubSeq(s, i + 1, Len(s)))
    ELSE <<s>>

\* ",".join(parts)
RECURSIVE join(_)
join(parts) ==
    IF parts = <<>> THEN <<>>
    ELSE IF Len(parts) = 1 THEN parts[1]
    ELSE parts[1] \o <<",">> \o join(Tail(parts))

Digits == <<"0", "1", "2", "3", "4", "5", "6", "7", "8", "9">>

IsDigit(c) == \E d \in DOMAIN Digits : Digits[d] = c

DigitValue(c) == (CHOOSE d \in DOMAIN Digits : Digits[d] = c) - 1

RECURSIVE DigitsValue(_)
DigitsValue(s) ==
    IF s = <<>> THEN 0
    ELSE 10 * DigitsValue(SubSeq(s, 1, Len(s) - 1)) + DigitValue(s[Len(s)])

RECURSIVE DigitsOf(_)
DigitsOf(n) ==
    IF n < 10 THEN <<Digits[n + 1]>> ELSE DigitsOf(n \div 10) \o <<Digits[(n % 10) + 1]>>

\* str(n) of a Python int
str_int(n) == IF n < 0 THEN <<"-">> \o DigitsOf(0 - n) ELSE DigitsOf(n)

\* str(w) of a Python float with one decimal place: 1.0 -> "1.0", 2.5 -> "2.5"
str_float(w) ==
    LET a == IF w < 0 THEN 0 - w ELSE w
    IN (IF w < 0 THEN <<"-">> ELSE <<>>)
         \o DigitsOf(a \div 10) \o <<".">> \o <<Digits[(a % 10) + 1]>>

\* float(s.strip()) for the decimal forms "12", "1.5", "1.", ".5" with an
\* optional sign and at most one fractional digit. float_parts holds the parse,
\* float_raises tells whether float() raises ValueError, float is its value.
float_parts(s) ==
    LET t == strip(s)
        neg == t # <<>> /\ t[1] = "-"
        u == IF t # <<>> /\ t[1] \in {"-", "+"} THEN Tail(t) ELSE t
        dots == {i \in DOMAIN u : u[i] = "."}
        ip == IF dots = {} THEN u
              ELSE SubSeq(u, 1, (CHOOSE i \in dots : TRUE) - 1)
        fp == IF dots = {} THEN <<>>
              ELSE SubSeq(u, (CHOOSE i \in dots : TRUE) + 1, Len(u))
        ok == /\ Cardinality(dots) <= 1
              /\ Len(ip) + Len(fp) >= 1
              /\ Len(fp) <= 1
              /\ \A i \in DOMAIN ip : IsDigit(ip[i])
              /\ \A i \in DOMAIN fp : IsDigit(fp[i])
        mag == 10 * DigitsValue(ip) + DigitsValue(fp)
    IN [ok |-> ok, value |-> IF ok THEN (IF neg THEN 0 - mag ELSE mag) ELSE 0]

float_raises(s) == ~float_parts(s).ok

float(s) == float_parts(s).value

\* Exact rationals standing for Python floats
Rat(n, d) == [n |-> n, d |-> d]

RatZero == Rat(0, 1)

RatEq(a, b) == a.n * b.d = b.n * a.d

RatAdd(a, b) == Rat(a.n * b.d + b.n * a.d, a.d * b.d)

RECURSIVE RatSum(_)
RatSum(s) == IF s = <<>> THEN RatZero ELSE RatAdd(Head(s), RatSum(Tail(s)))

\* The option alphabet (27 letters in the source, the first four kept here)
ukrainian_letters == <<"A", "B", "C", "D">>

\* list.index(x): position of the first occurrence (1-based here)
index(s, x) == CHOOSE i \in DOMAIN s : s[i] = x /\ \A j \in 1..(i - 1) : s[j] # x

\* Python's < on str: lexicographic by character; the keys compared are
\* digit strings, whose characters order as their values
RECURSIVE str_less(_, _)
str_less(a, b) ==
    IF b = <<>> THEN FALSE
    ELSE IF a = <<>> THEN TRUE
    ELSE IF Head(a) = Head(b) THEN str_less(Tail(a), Tail(b))
    ELSE DigitValue(Head(a)) < DigitValue(Head(b))

Perms(n) == {f \in [1..n -> 1..n] : \A i, j \in 1..n : f[i] = f[j] => i = j}

\* A stable ascending sort of s by the integer keys rank[i]: no element
\* precedes one of smaller key and elements of equal key keep their order
sorted_by(s, rank) ==
    LET p == CHOOSE q \in Perms(Len(s)) :
                 \A a, b \in DOMAIN s :
                     a < b => /\ rank[q[a]] <= rank[q[b]]
                              /\ rank[q[a]] = rank[q[b]] => q[a] < q[b]
    IN [i \in DOMAIN s |-> s[p[i]]]

\* The rank of each string of a sequence in Python's str order
str_ranks(keys) ==
    [i \in DOMAIN keys |->
        Cardinality({j \in DOMAIN keys : str_less(keys[j], keys[i])})]

\* ---------------------------------------------------------------------------
\* read_test_excel
\* ---------------------------------------------------------------------------

\* An empty cell (NaN, 'nan' after astype(str))
nan == "nan"

open_task_types == {"open"}

valid_task_types == {"open", "test", "test_m"}

\* df['question_number'].astype(str): the number becomes its decimal string
question_number_of(number) == str_int(number)

\* pd.to_numeric(errors='coerce') then fillna(1.0)
weight_of(cell) == IF float_raises(cell) THEN 10 ELSE float(cell)

\* option_count: the non-empty cells of option_1..option_4 before the first
\* empty one
RECURSIVE consecutive_count(_)
consecutive_count(cells) ==
    IF cells = <<>> \/ Head(cells) = nan THEN 0
    ELSE 1 + consecutive_count(Tail(cells))

\* has_gaps: a filled option cell after an empty one
has_gaps(cells) ==
    \E i, j \in DOMAIN cells : i < j /\ cells[i] = nan /\ cells[j] # nan

\* The conversion of a test question's correct answer: digits become letters,
\* option letters stay, anything else is an error
answer_convertible(answer_str) ==
    /\ answer_str # <<>>
    /\ \A k \in DOMAIN answer_str :
          IF IsDigit(answer_str[k])
          THEN DigitValue(answer_str[k]) - 1 \in 0..(Len(ukrainian_letters) - 1)
          ELSE answer_str[k] \in Range(ukrainian_letters)

converted_answer(answer_str) ==
    [k \in DOMAIN answer_str |->
        IF IsDigit(answer_str[k])
        THEN ukrainian_letters[DigitValue(answer_str[k])]
        ELSE answer_str[k]]

is_open(r) == r.task_type \in open_task_types

read_row(r) ==
    [question_number |-> question_number_of(r.number),
     question |-> r.question,
     correct_answer |-> IF is_open(r) THEN strip(r.correct_answer)
                        ELSE converted_answer(upper(strip(r.correct_answer))),
     weight |-> weight_of(r.weight),
     options |-> r.options,
     task_type |-> r.task_type,
     is_test_question |-> ~is_open(r),
     is_multiple_choice |-> r.task_type = "test_m"]

\* TRUE when read_test_excel raises for the sheet
read_raises(raw_df) ==
    \/ raw_df = <<>>
    \/ \E i \in DOMAIN raw_df :
          LET r == raw_df[i]
          IN \/ ~is_open(r) /\ has_gaps(r.options)
             \/ strip(r.correct_answer) = <<>>
             \/ ~is_open(r) /\ consecutive_count(r.options) = 1
             \/ r.task_type \notin valid_task_types
             \/ ~is_open(r) /\ ~answer_convertible(upper(strip(r.correct_answer)))

read_test_excel(raw_df) == [i \in DOMAIN raw_df |-> read_row(raw_df[i])]

\* ---------------------------------------------------------------------------
\* _process_optional_questions
\* ---------------------------------------------------------------------------

\* df.groupby('question_number'): the group keys in sorted order
group_keys(d) == {d[i].question_number : i \in DOMAIN d}

RECURSIVE sorted_keys(_)
sorted_keys(keys) ==
    IF keys = {} THEN <<>>
    ELSE LET m == CHOOSE k \in keys : \A o \in keys \ {k} : str_less(k, o)
         IN <<m>> \o sorted_keys(keys \ {m})

group(d, key) == {i \in DOMAIN d : d[i].question_number = key}

\* Mutant of resolver_picks: every group takes the first row of the bank
resolver_picks_first_row(d) == {[k \in group_keys(d) |-> 1]}

\* The draws of group.sample(n=1): one row index per group
resolver_picks(d) ==
    {f \in [group_keys(d) -> DOMAIN d] : \A k \in group_keys(d) : f[k] \in group(d, k)}

\* Mutant of process_optional_questions: groups of one row are dropped
process_optional_questions_drop_single(d, pick) ==
    LET many == {k \in group_keys(d) : Cardinality(group(d, k)) > 1}
        keys == sorted_keys(many)
    IN [k \in DOMAIN keys |-> d[pick[keys[k]]]]

\* One row per group, concatenated in group order, then sorted by
\* question_number (the string)
process_optional_questions(d, pick) ==
    LET keys == sorted_keys(group_keys(d))
        selected_questions == [k \in DOMAIN keys |-> d[pick[keys[k]]]]
    IN sorted_by(selected_questions,
                 str_ranks([k \in DOMAIN selected_questions |->
                               selected_questions[k].question_number]))

\* ---------------------------------------------------------------------------
\* generate_test_variants
\* ---------------------------------------------------------------------------

\* processed_df.sort_values('weight'): the sort kind is left at its default,
\* 'quicksort', which orders the keys and promises nothing about rows of
\* equal key; every ascending arrangement is an outcome
sort_values_weight(processed) ==
    {[i \in DOMAIN processed |-> processed[p[i]]] :
        p \in {q \in Perms(Len(processed)) :
                  \A a, b \in DOMAIN processed :
                      a < b => processed[q[a]].weight <= processed[q[b]].weight}}

\* Mutant of question_orders: the full shuffle draws with replacement
question_orders_with_replacement(processed, mode) ==
    IF mode = "full"
    THEN {[i \in DOMAIN processed |-> processed[f[i]]] :
             f \in [DOMAIN processed -> DOMAIN processed]}
    ELSE IF mode = "easy_to_hard"
    THEN sort_values_weight(processed)
    ELSE {processed}

\* The orders in which the resolved questions may be laid out
question_orders(processed, mode) ==
    IF mode = "full"
    THEN {[i \in DOMAIN processed |-> processed[p[i]]] : p \in Perms(Len(processed))}
    ELSE IF mode = "easy_to_hard"
    THEN sort_values_weight(processed)
    ELSE {processed}

\* options: the non-empty option cells of the row, in column order
built_options(row) ==
    LET Filled(c) == c # nan IN SelectSeq(row.options, Filled)

\* correct_answer_indices: per letter of the correct answer, the option it
\* designates (a letter among the first len(options), or a 1-based digit);
\* letters that designate no option are skipped
RECURSIVE correct_answer_indices(_, _)
correct_answer_indices(correct_answer_str, n) ==
    IF correct_answer_str = <<>> THEN <<>>
    ELSE LET letter == Head(correct_answer_str)
             rest == correct_answer_indices(Tail(correct_answer_str), n)
         IN IF \E i \in 1..Min(n, Len(ukrainian_letters)) : ukrainian_letters[i] = letter
            THEN <<index(ukrainian_letters, letter)>> \o rest
            ELSE IF IsDigit(letter) /\ DigitValue(letter) - 1 \in 0..(n - 1)
            THEN <<DigitValue(letter)>> \o rest
            ELSE rest

\* Mutant of new_correct_answer: the letters keep their original positions
new_correct_answer_by_index(options, indices, shuffled_options) ==
    LET positions == sorted_by(indices, indices)
    IN [k \in DOMAIN positions |-> ukrainian_letters[positions[k]]]

\* new_correct_letters, sorted and joined: per originally correct option text
\* the letter of its first position in shuffled_options
new_correct_answer(options, indices, shuffled_options) ==
    LET new_positions == [k \in DOMAIN indices |->
                             index(shuffled_options, options[indices[k]])]
        positions == sorted_by(new_positions, new_positions)
    IN [k \in DOMAIN positions |-> ukrainian_letters[positions[k]]]

\* Mutant of question_raises: no question is checked
question_raises_unchecked(row) == FALSE

\* TRUE when building the question raises ValueError
question_raises(row) ==
    /\ row.is_test_question
    /\ \/ Len(built_options(row)) < 2
       \/ correct_answer_indices(upper(strip(row.correct_answer)),
                                 Len(built_options(row))) = <<>>

\* The permutations random.shuffle may apply to the options of a row
option_shuffles(row, mode) ==
    LET n == Len(built_options(row))
    IN IF row.is_test_question /\ mode = "random" THEN Perms(n)
       ELSE {[i \in 1..n |-> i]}

RECURSIVE shuffle_choices(_, _)
shuffle_choices(rows, mode) ==
    IF rows = <<>> THEN {<<>>}
    ELSE {<<p>> \o rest : p \in option_shuffles(Head(rows), mode),
                          rest \in shuffle_choices(Tail(rows), mode)}

\* question_data of one row under the option permutation p
question_data(row, p) ==
    LET options == built_options(row)
        shuffled_options == [i \in DOMAIN options |-> options[p[i]]]
        indices == correct_answer_indices(upper(strip(row.correct_answer)),
                                          Len(options))
    IN [question_text |-> row.question,
        weight |-> row.weight,
        is_test_question |-> row.is_test_question,
        options |-> IF row.is_test_question THEN shuffled_options ELSE <<>>,
        correct_answer |-> IF row.is_test_question
                           THEN new_correct_answer(options, indices, shuffled_options)
                           ELSE strip(row.correct_answer)]

\* Mutant of new_variant: variants are numbered from 0
new_variant_from_zero(number, rows, shuffles) ==
    LET questions == [i \in DOMAIN rows |-> question_data(rows[i], shuffles[i])]
    IN [variant_number |-> number - 1,
        questions |-> questions,
        answer_key |-> [i \in DOMAIN questions |-> questions[i].correct_answer]]

\* The variant built by the pass of the loop whose variant_num is number
new_variant(number, rows, shuffles) ==
    LET questions == [i \in DOMAIN rows |-> question_data(rows[i], shuffles[i])]
    IN [variant_number |-> number,
        questions |-> questions,
        answer_key |-> [i \in DOMAIN questions |-> questions[i].correct_answer]]

\* ---------------------------------------------------------------------------
\* create_excel_answer_key
\* ---------------------------------------------------------------------------

\* One row of the sheet of basic answers
basic_row(variant) ==
    [Variant |-> variant.variant_number,
     Answers |-> join(variant.answer_key),
     Weights |-> join([i \in DOMAIN variant.questions |->
                          str_float(variant.questions[i].weight)])]

\* The rows of the detailed sheet for one variant
detailed_rows(variant) ==
    [i \in DOMAIN variant.questions |->
       [Variant |-> variant.variant_number,
        Number |-> i,
        Type |-> IF variant.questions[i].is_test_question THEN "test" ELSE "open",
        Options |-> variant.questions[i].options]]

create_excel_answer_key(vs) ==
    [extended |-> TRUE,
     key_df |-> [k \in DOMAIN vs |-> basic_row(vs[k])],
     detailed_df |-> Concat([k \in DOMAIN vs |-> detailed_rows(vs[k])])]

\* ---------------------------------------------------------------------------
\* check_student_answers
\* ---------------------------------------------------------------------------

\* total_points = 12
total_points == 12

\* student_ans_int of an unanswered question
not_filled == <<"(not filled)">>

Error(kind) == [status |-> "error", error |-> kind]

\* ValueError(f"Варіант {variant_number} не знайдено у файлі-ключі")
VariantNotFound(variant_number) ==
    [status |-> "error", error |-> "VariantNotFound",
     variant_number |-> variant_number]

\* Mutant of variant_row_of: an unknown variant falls back on the first row
variant_row_or_first(key_df, variant_number) ==
    LET OfVariant(r) == r.Variant = variant_number
    IN IF SelectSeq(key_df, OfVariant) = <<>> THEN <<key_df[1]>>
       ELSE SelectSeq(key_df, OfVariant)

\* variant_row = key_df[key_df['Варіант'] == variant_number]
variant_row_of(key_df, variant_number) ==
    LET OfVariant(r) == r.Variant = variant_number
    IN SelectSeq(key_df, OfVariant)

\* detailed_info: the rows of the detailed sheet for the variant; a key file
\* without that sheet (old format) leaves it None, which grades like no rows
detailed_info_of(file, variant_number) ==
    LET OfVariant(r) == r.Variant = variant_number
    IN IF file.extended THEN SelectSeq(file.detailed_df, OfVariant) ELSE <<>>

\* question_options for position i (1-based): the non-empty option cells of
\* the first detailed row whose question number is i
question_options_of(detailed_info, i) ==
    LET OfNumber(r) == r.Number = i
        question_detail == SelectSeq(detailed_info, OfNumber)
    IN IF question_detail = <<>> THEN <<>> ELSE question_detail[1].Options

\* Mutant of is_empty_answer: the whitespace test is forgotten
is_empty_answer_unstripped(student_ans) == student_ans = <<>>

\* not student_ans or str(student_ans).strip() == ""
is_empty_answer(student_ans) == student_ans = <<>> \/ strip(student_ans) = <<>>

\* Mutant of open_answer_matches: the case is not folded
open_answer_matches_cased(student_ans, correct_ans) ==
    strip(student_ans) = strip(correct_ans)

\* student_str == correct_str after .strip().lower() on both sides
open_answer_matches(student_ans, correct_ans) ==
    lower(strip(student_ans)) = lower(strip(correct_ans))

\* The matching rule applied to one question (the body of the for loop up to
\* the computation of is_correct). raised = TRUE stands for the ValueError of
\* an invalid letter.
match_answer(student_ans, correct_ans, question_options) ==
    LET is_test_question == Len(question_options) > 0
        empty == is_empty_answer(student_ans)
        student_ans_normalized == upper(strip(student_ans))
        correct_ans_normalized == upper(strip(correct_ans))
        valid_letters == Range(ukrainian_letters)
    IN IF is_test_question
       THEN IF empty
            THEN [raised |-> FALSE, is_correct |-> FALSE, student_answer |-> not_filled]
            ELSE IF Len(student_ans_normalized) > 1
            THEN IF \E k \in DOMAIN student_ans_normalized :
                        student_ans_normalized[k] \notin valid_letters
                 THEN [raised |-> TRUE, is_correct |-> FALSE, student_answer |-> <<>>]
                 ELSE [raised |-> FALSE,
                       is_correct |-> Range(student_ans_normalized)
                                        = Range(correct_ans_normalized),
                       student_answer |-> student_ans_normalized]
            ELSE IF student_ans_normalized[1] \notin valid_letters
                 THEN [raised |-> TRUE, is_correct |-> FALSE, student_answer |-> <<>>]
                 ELSE [raised |-> FALSE,
                       is_correct |-> student_ans_normalized = correct_ans_normalized,
                       student_answer |-> student_ans_normalized]
       ELSE IF empty
            THEN [raised |-> FALSE, is_correct |-> FALSE, student_answer |-> not_filled]
            ELSE [raised |-> FALSE,
                  is_correct |-> open_answer_matches(student_ans, correct_ans),
                  student_answer |-> student_ans]

\* Mutant of earned_points_of: half credit for a wrong answer
earned_points_partial(is_correct, question_points) ==
    IF is_correct THEN question_points
    ELSE Rat(question_points.n, question_points.d * 2)

\* earned_points = question_points if is_correct else 0
earned_points_of(is_correct, question_points) ==
    IF is_correct THEN question_points ELSE RatZero

\* Mutant of count_mismatch: the count check is missing
count_mismatch_unchecked(student_answers, answer_key) == FALSE

\* The guard before grading: the student's answer count against the key's
count_mismatch(student_answers, answer_key) ==
    Len(student_answers) # Len(answer_key)

\* answer_key: the answers field split at commas, every entry stripped
decode_answers(answers_str) ==
    LET parts == split(answers_str) IN [i \in DOMAIN parts |-> strip(parts[i])]

\* weights: the weights field split at commas, every entry through float()
decode_weights(weights_str) ==
    LET parts == split(weights_str) IN [i \in DOMAIN parts |-> float(parts[i])]

check_student_answers(file, variant_number, student_answers) ==
    LET variant_row == variant_row_of(file.key_df, variant_number)
        detailed_info == detailed_info_of(file, variant_number)
        answer_key == decode_answers(variant_row[1].Answers)
        weights == decode_weights(variant_row[1].Weights)
        total_weight == SumSeq(weights)
        \* zip(student_answers, answer_key, weights) stops at the shortest
        n == Min(Len(student_answers), Min(Len(answer_key), Len(weights)))
        question_points(i) == Rat(weights[i] * total_points, total_weight)
        matched(i) == match_answer(student_answers[i], answer_key[i],
                                   question_options_of(detailed_info, i))
        detailed_results ==
            [i \in 1..n |->
               [question_number |-> i,
                student_answer |-> matched(i).student_answer,
                correct_answer |-> answer_key[i],
                is_correct |-> matched(i).is_correct,
                weight |-> weights[i],
                points |-> earned_points_of(matched(i).is_correct, question_points(i)),
                max_points |-> question_points(i),
                is_test_question |-> Len(question_options_of(detailed_info, i)) > 0,
                question_options |-> question_options_of(detailed_info, i)]]
        correct_weighted_score ==
            RatSum([i \in 1..n |-> detailed_results[i].points])
    IN IF variant_row = <<>> THEN VariantNotFound(variant_number)
       ELSE IF \E w \in Range(split(variant_row[1].Weights)) : float_raises(w)
       THEN Error("ValueError")
       ELSE IF count_mismatch(student_answers, answer_key)
       THEN Error("CountMismatch")
       ELSE IF total_weight = 0 THEN Error("ZeroDivisionError")
       ELSE IF \E i \in 1..n : matched(i).raised THEN Error("InvalidLetter")
       ELSE [status |-> "ok",
             variant_number |-> variant_number,
             total_questions |-> Len(answer_key),
             correct_answers |->
                 Cardinality({i \in 1..n : detailed_results[i].is_correct}),
             score_percentage |->
                 Rat(correct_weighted_score.n * 100,
                     correct_weighted_score.d * total_points),
             weighted_score |-> correct_weighted_score,
             max_score |-> total_points,
             detailed_results |-> detailed_results]

\* ---------------------------------------------------------------------------
\* Inputs of the grading specification: key files and submissions
\* ---------------------------------------------------------------------------

MaxQuestions == 2

\* Correct-answer entries of a hand-written or generated key (first question)
KeyAnswers ==
    {<<>>, <<"A">>, <<"a">>, <<"A", "B">>, <<" ", "A", "B">>, <<"a", "b">>}

\* Correct-answer entries of the questions after the first
KeyAnswersTail == {<<"B">>, <<"a", "b">>}

\* Weight entries as they stand in the weights field
KeyWeights == {<<"1", ".", "0">>, <<"2", ".", "0">>}

\* Weight lists beside the regular ones: malformed, zero sum, int and half
\* forms, a zero weight beside a positive one
OddWeightLists ==
    {<<<<"x">>>>, <<<<"0", ".", "0">>>>, <<<<" ", "1">>, <<"0", ".", "5">>>>,
     <<<<"0", ".", "0">>, <<"1", ".", "0">>>>}

\* Option cells recorded by the detailed sheet for a test question
KeyOptions == <<"X", "Y", "Z">>

AnswerLists ==
    {<<a>> \o t : a \in KeyAnswers, t \in SeqsUpTo(KeyAnswersTail, 0, MaxQuestions - 1)}

\* Weight lists of one entry up to one more than MaxQuestions: any first
\* weight, weights of 1.0 after it
WeightLists ==
    {<<w>> \o t : w \in KeyWeights,
                  t \in SeqsUpTo({<<"1", ".", "0">>}, 0, MaxQuestions)}
        \cup OddWeightLists

\* The detailed sheet of a one-variant key: one row per question, a test
\* question (with options) wherever is_test[i]
DetailedRows(variant, is_test) ==
    [i \in DOMAIN is_test |->
       [Variant |-> variant, Number |-> i,
        Type |-> IF is_test[i] THEN "test" ELSE "open",
        Options |-> IF is_test[i] THEN KeyOptions ELSE <<>>]]

\* The detailed sheets of a key file: none (<<>>), or one row per question
DetailedSheets ==
    {<<>>} \cup {DetailedRows(1, t) : t \in [1..MaxQuestions -> BOOLEAN]}

\* Key files: the old one-sheet format, and the extended format with a
\* detailed sheet
KeyFiles ==
    {[extended |-> dd # <<>>,
      key_df |-> <<[Variant |-> 1, Answers |-> join(al), Weights |-> join(wl)]>>,
      detailed_df |-> dd] :
        al \in AnswerLists, wl \in WeightLists, dd \in DetailedSheets}

\* Answers a student may write for the first question
StudentAnswers ==
    {<<>>, <<" ">>, <<"A">>, <<"B">>, <<"a">>, <<" ", "A">>, <<"x">>,
     <<"A", "A">>, <<"A", "B">>, <<"B", "A">>, <<"a", "b">>, <<"b", "a">>,
     <<"A", "x">>, <<"A", "B", "C">>, <<"A", "B", " ">>}

\* Answers a student may write for the later questions
StudentAnswersTail == {<<>>, <<"B">>}

\* A submission whose later answer has a character outside the alphabet
OddSubmissions == {<<<<"A">>, <<"x">>>>}

Submissions ==
    {<<a>> \o t : a \in StudentAnswers,
                  t \in SeqsUpTo(StudentAnswersTail, 0, MaxQuestions)}
        \cup OddSubmissions

\* The calls made: any submission for variant 1, and the one-answer
\* submissions for variant 2, which no key of KeyFiles holds
Calls ==
    {[variant_number |-> 1, student_answers |-> sa] : sa \in Submissions}
        \cup {[variant_number |-> 2, student_answers |-> <<a>>] : a \in StudentAnswers}

NoCall == [variant_number |-> 0, student_answers |-> <<>>]

NoResult == [status |-> "none"]

\* No answer line has been typed into either application
NoEntry == [caller |-> "none", answers_text |-> <<>>]

\* ---------------------------------------------------------------------------
\* Grading specification: any key file, any submission
\* ---------------------------------------------------------------------------

InitCheck ==
    /\ sheet = <<>>
    /\ df = <<>>
    /\ num_variants = 0
    /\ question_shuffle_mode = "none"
    /\ answer_shuffle_mode = "none"
    /\ variant_num = 0
    /\ processed_df = <<>>
    /\ shuffled_df = <<>>
    /\ variants = <<>>
    /\ pc = "check"
    /\ answer_key_file \in KeyFiles
    /\ entry = NoEntry
    /\ call = NoCall
    /\ result = NoResult

CheckStudentAnswers ==
    /\ pc = "check"
    /\ \E c \in Calls :
         /\ call' = c
         /\ result' = check_student_answers(answer_key_file, c.variant_number,
                                            c.student_answers)
    /\ pc' = "checked"
    /\ UNCHANGED <<entry, sheet, df, num_variants, question_shuffle_mode,
                   answer_shuffle_mode, variant_num, processed_df, shuffled_df, variants,
                   answer_key_file>>

NextCheck == CheckStudentAnswers

SpecCheck == InitCheck /\ [][NextCheck]_vars

\* ---------------------------------------------------------------------------
\* Inputs of the generation specification: question sheets
\* ---------------------------------------------------------------------------

MaxRows == 2

MaxVariants == 2

\* The rows a sheet is made of: number, type, correct answer, weight cell and
\* option cells. Numbers 2 and 10 each have alternatives.
SheetRows ==
    {[number |-> 2, question |-> "Q1", task_type |-> "test_m",
      correct_answer |-> <<"a", "c">>, weight |-> <<"2", ".", "0">>,
      options |-> <<"X", "Y", "Z", nan>>],
     [number |-> 2, question |-> "Q2", task_type |-> "test_m",
      correct_answer |-> <<"A", "C">>, weight |-> <<"1", ".", "0">>,
      options |-> <<"X", "Y", "X", nan>>],
     [number |-> 2, question |-> "Q3", task_type |-> "open",
      correct_answer |-> <<"a", "b", " ">>, weight |-> <<"1", ".", "0">>,
      options |-> <<nan, nan, nan, nan>>],
     [number |-> 10, question |-> "Q4", task_type |-> "test",
      correct_answer |-> <<"1">>, weight |-> <<"1", ".", "0">>,
      options |-> <<"X", "Y", nan, nan>>],
     [number |-> 10, question |-> "Q5", task_type |-> "open",
      correct_answer |-> <<"a", ",", "b">>, weight |-> <<"2", ".", "0">>,
      options |-> <<nan, nan, nan, nan>>],
     [number |-> 10, question |-> "Q6", task_type |-> "test_m",
      correct_answer |-> <<"A", "D">>, weight |-> <<"0", ".", "5">>,
      options |-> <<"X", "Y", nan, nan>>],
     [number |-> 10, question |-> "Q7", task_type |-> "test",
      correct_answer |-> <<"A">>, weight |-> <<>>,
      options |-> <<nan, nan, nan, nan>>],
     [number |-> 2, question |-> "Q8", task_type |-> "test",
      correct_answer |-> <<"A">>, weight |-> <<"1", ".", "0">>,
      options |-> <<"X", nan, nan, nan>>],
     [number |-> 10, question |-> "Q9", task_type |-> "open",
      correct_answer |-> <<"a">>, weight |-> <<"0">>,
      options |-> <<nan, nan, nan, nan>>]}

Sheets == SeqsUpTo(SheetRows, 1, MaxRows)

\* ---------------------------------------------------------------------------
\* Generation specification: read, generate, persist, grade the own key
\* ---------------------------------------------------------------------------

Init ==
    /\ sheet \in Sheets
    /\ df = <<>>
    /\ num_variants \in 0..MaxVariants
    /\ question_shuffle_mode \in {"full", "easy_to_hard", "none"}
    /\ answer_shuffle_mode \in {"random", "none"}
    /\ variant_num = 0
    /\ processed_df = <<>>
    /\ shuffled_df = <<>>
    /\ variants = <<>>
    /\ pc = "read"
    /\ answer_key_file = [extended |-> TRUE, key_df |-> <<>>, detailed_df |-> <<>>]
    /\ entry = NoEntry
    /\ call = NoCall
    /\ result = NoResult

ReadTestExcel ==
    /\ pc = "read"
    /\ IF read_raises(sheet)
       THEN pc' = "read_error" /\ df' = df
       ELSE pc' = "generate" /\ df' = read_test_excel(sheet)
    /\ UNCHANGED <<entry, sheet, num_variants, question_shuffle_mode, answer_shuffle_mode,
                   variant_num, processed_df, shuffled_df, variants,
                   answer_key_file, call, result>>

\* One pass of the loop over variant_num in generate_test_variants; a raise
\* leaves the loop variable at the failing pass and hands the caller nothing
GenerateVariant ==
    /\ pc = "generate"
    /\ variant_num < num_variants
    /\ variant_num' = variant_num + 1
    /\ \E pick \in resolver_picks(df) :
         LET processed == process_optional_questions(df, pick)
         IN \E rows \in question_orders(processed, question_shuffle_mode) :
              \E shuffles \in shuffle_choices(rows, answer_shuffle_mode) :
                 /\ processed_df' = processed
                 /\ shuffled_df' = rows
                 /\ IF \E i \in DOMAIN rows : question_raises(rows[i])
                    THEN pc' = "generate_error" /\ variants' = <<>>
                    ELSE /\ pc' = pc
                         /\ variants' = Append(variants,
                                new_variant(variant_num + 1, rows, shuffles))
    /\ UNCHANGED <<entry, sheet, df, num_variants, question_shuffle_mode,
                   answer_shuffle_mode, answer_key_file, call, result>>

\* return variants
ReturnVariants ==
    /\ pc = "generate"
    /\ variant_num = num_variants
    /\ pc' = "generated"
    /\ UNCHANGED <<entry, sheet, df, num_variants, question_shuffle_mode,
                   answer_shuffle_mode, variant_num, processed_df, shuffled_df, variants,
                   answer_key_file, call, result>>

CreateExcelAnswerKey ==
    /\ pc = "generated"
    /\ answer_key_file' = create_excel_answer_key(variants)
    /\ pc' = "check_own"
    /\ UNCHANGED <<entry, sheet, df, num_variants, question_shuffle_mode,
                   answer_shuffle_mode, variant_num, processed_df, shuffled_df, variants,
                   call, result>>

\* A variant's own answer_key list is submitted against the persisted key
CheckOwnAnswers ==
    /\ pc = "check_own"
    /\ \E k \in DOMAIN variants :
         /\ call' = [variant_number |-> variants[k].variant_number,
                     student_answers |-> variants[k].answer_key]
         /\ result' = check_student_answers(answer_key_file,
                                            variants[k].variant_number,
                                            variants[k].answer_key)
    /\ pc' = "checked"
    /\ UNCHANGED <<entry, sheet, df, num_variants, question_shuffle_mode,
                   answer_shuffle_mode, variant_num, processed_df, shuffled_df, variants,
                   answer_key_file>>

Next ==
    \/ ReadTestExcel
    \/ GenerateVariant
    \/ ReturnVariants
    \/ CreateExcelAnswerKey
    \/ CheckOwnAnswers

Spec == Init /\ [][Next]_vars

\* The calls generate_test_variants(df, 1, ...): one variant, every mode
InitOne == Init /\ num_variants = 1

SpecOne == InitOne /\ [][Next]_vars

\* The calls with answer_shuffle_mode = 'none': every question order mode and
\* every number of variants, options left in source order
InitBatch == Init /\ answer_shuffle_mode = "none"

SpecBatch == InitBatch /\ [][Next]_vars

\* ---------------------------------------------------------------------------
\* Answer-line specification: the two applications parse the typed line of
\* comma-separated answers and call check_student_answers
\* ---------------------------------------------------------------------------

\* check_answers of the Streamlit application (src/app/app.py): the list it
\* builds from the line; every field is stripped, a blank field becomes ""
check_answers(answers_text) ==
    LET raw_answers == split(answers_text)
    IN [i \in DOMAIN raw_answers |-> strip(raw_answers[i])]

\* _check_answers_thread of the desktop application (src/main.py):
\* [x.strip() for x in answers_text.split(',') if x.strip()]
check_answers_thread(text) ==
    LET answers_text == strip(text)
        raw == split(answers_text)
        stripped == [i \in DOMAIN raw |-> strip(raw[i])]
        Filled(x) == x # <<>>
    IN SelectSeq(stripped, Filled)

\* The fields a user may type between commas
EntryFields == {<<>>, <<" ">>, <<"A">>, <<"B">>, <<" ", "B">>}

\* The typed lines: one field up to one more than MaxQuestions
EntryLines == {join(f) : f \in SeqsUpTo(EntryFields, 1, MaxQuestions + 1)}

Entries ==
    {[caller |-> c, answers_text |-> t] : c \in {"app", "main"}, t \in EntryLines}

\* The key files graded against: two questions, answers A and B
EntryKeyFiles ==
    {[extended |-> dd # <<>>,
      key_df |-> <<[Variant |-> 1,
                    Answers |-> <<"A", ",", "B">>,
                    Weights |-> <<"1", ".", "0", ",", "1", ".", "0">>]>>,
      detailed_df |-> dd] : dd \in DetailedSheets}

InitEntry ==
    /\ sheet = <<>>
    /\ df = <<>>
    /\ num_variants = 0
    /\ question_shuffle_mode = "none"
    /\ answer_shuffle_mode = "none"
    /\ variant_num = 0
    /\ processed_df = <<>>
    /\ shuffled_df = <<>>
    /\ variants = <<>>
    /\ pc = "enter"
    /\ answer_key_file \in EntryKeyFiles
    /\ entry \in Entries
    /\ call = NoCall
    /\ result = NoResult

\* The button handler of either application: a blank line is refused, any
\* other line is parsed and graded for variant 1
CheckAnswers ==
    /\ pc = "enter"
    /\ IF strip(entry.answers_text) = <<>>
       THEN pc' = "no_answers" /\ UNCHANGED <<call, result>>
       ELSE LET student_answers ==
                    IF entry.caller = "app"
                    THEN check_answers(entry.answers_text)
                    ELSE check_answers_thread(entry.answers_text)
            IN /\ call' = [variant_number |-> 1,
                           student_answers |-> student_answers]
               /\ result' = check_student_answers(answer_key_file, 1,
                                                  student_answers)
               /\ pc' = "checked"
    /\ UNCHANGED <<sheet, df, num_variants, question_shuffle_mode,
                   answer_shuffle_mode, variant_num, processed_df, shuffled_df,
                   variants, answer_key_file, entry>>

NextEntry == CheckAnswers

SpecEntry == InitEntry /\ [][NextEntry]_vars

\* ---------------------------------------------------------------------------
\* Claims
\* ---------------------------------------------------------------------------

Returned == pc = "checked" /\ result.status = "ok"

Items == IF Returned THEN result.detailed_results ELSE <<>>

\* The row of the key the last call was graded against (<<>> when none)
CalledRow ==
    LET OfVariant(r) == r.Variant = call.variant_number
    IN SelectSeq(answer_key_file.key_df, OfVariant)

IsLetters(s) == \A k \in DOMAIN s : s[k] \in Range(ukrainian_letters)

\* C2 (as claimed): for a persisted correct answer of two or more letters a
\* question is marked correct exactly when the set of submitted letters equals
\* the set of correct letters, for every key file, with or without the
\* detailed sheet.
C2_SetEquality ==
    \A i \in DOMAIN Items :
        (Len(Items[i].correct_answer) >= 2 /\ IsLetters(Items[i].correct_answer))
            => (Items[i].is_correct
                  <=> Range(upper(strip(call.student_answers[i])))
                        = Range(Items[i].correct_answer))

\* C3: an answer that is empty or only whitespace is graded incorrect and
\* earns 0, whatever the question kind and the persisted correct answer.
C3_EmptyNeverCorrect ==
    \A i \in DOMAIN Items :
        strip(call.student_answers[i]) = <<>>
            => ~Items[i].is_correct /\ Items[i].points.n = 0

C3_Witness ==
    \E i, j \in DOMAIN Items :
        /\ call.student_answers[i] = <<" ">>
        /\ Items[i].correct_answer = <<>>
        /\ ~Items[i].is_test_question
        /\ call.student_answers[j] = <<>>
        /\ Items[j].is_test_question

\* C4: a call whose number of student answers differs from the number of
\* decoded correct answers of the variant ends in an error, never in a result.
C4_CountMismatchRaises ==
    (/\ pc = "checked"
     /\ CalledRow # <<>>
     /\ Len(call.student_answers) # Len(decode_answers(CalledRow[1].Answers)))
        => result.status = "error"

C4_Witness ==
    /\ pc = "checked"
    /\ result.status = "error"
    /\ result.error = "CountMismatch"
    /\ Len(call.student_answers) < Len(decode_answers(CalledRow[1].Answers))

\* C5 (as claimed): in every returned result question i has
\* max_points = weight_i / (sum of the decoded weights) * 12 and the max_points
\* of the graded questions sum to 12.
C5_PointsSumToTwelve ==
    Returned =>
        LET weights == decode_weights(CalledRow[1].Weights)
        IN /\ \A i \in DOMAIN Items :
                  RatEq(Items[i].max_points,
                        Rat(weights[i] * 12, SumSeq(weights)))
           /\ RatEq(RatSum([i \in DOMAIN Items |-> Items[i].max_points]),
                    Rat(12, 1))

\* The call of generate_test_variants has returned its list
Generated == pc \in {"generated", "check_own", "checked"}

\* The key file has been written from the returned variants
Persisted == pc \in {"check_own", "checked"}

\* At least one pass of the generation loop has run the resolver
Resolved == variants # <<>> \/ pc = "generate_error"

\* C6 (as claimed): splitting the persisted answers and weights fields of a
\* variant gives back, in order and length, the variant's own correct answers
\* and weights.
C6_RoundTrip ==
    Persisted =>
        \A k \in DOMAIN variants :
            /\ decode_answers(answer_key_file.key_df[k].Answers)
                 = variants[k].answer_key
            /\ decode_weights(answer_key_file.key_df[k].Weights)
                 = [i \in DOMAIN variants[k].questions |->
                       variants[k].questions[i].weight]

\* The option texts of a bank row that its correct answer marks
MarkedTexts(row) ==
    LET options == built_options(row)
    IN {options[j] : j \in {m \in DOMAIN options :
            m <= Len(ukrainian_letters)
            /\ ukrainian_letters[m] \in Range(upper(strip(row.correct_answer)))}}

\* The option texts of a built question that its correct answer names
NamedTexts(q) ==
    {q.options[index(ukrainian_letters, q.correct_answer[k])] :
        k \in DOMAIN q.correct_answer}

LastVariant == variants[Len(variants)]

\* C7: for every choice question of a built variant, every letter of the
\* recomputed correct answer names a position of the shuffled options whose
\* text was originally marked correct, and every originally marked text is
\* named by some letter.
C7_ShuffleInvariant ==
    variants # <<>> =>
        \A i \in DOMAIN shuffled_df :
            shuffled_df[i].is_test_question =>
                /\ \A k \in DOMAIN LastVariant.questions[i].correct_answer :
                      index(ukrainian_letters,
                            LastVariant.questions[i].correct_answer[k])
                        \in DOMAIN LastVariant.questions[i].options
                /\ NamedTexts(LastVariant.questions[i]) = MarkedTexts(shuffled_df[i])

C7_Witness ==
    /\ variants # <<>>
    /\ \E i \in DOMAIN shuffled_df :
          /\ built_options(shuffled_df[i]) = <<"X", "Y", "Z">>
          /\ shuffled_df[i].correct_answer = <<"A", "C">>
          /\ LastVariant.questions[i].options = <<"Z", "X", "Y">>
          /\ LastVariant.questions[i].correct_answer = <<"A", "B">>

\* C8: the resolver returns exactly one record per distinct question number,
\* and the record returned for a number is an input record with that number.
C8_OnePerNumber ==
    Resolved =>
        /\ Len(processed_df) = Cardinality(group_keys(df))
        /\ \A k \in group_keys(df) :
              Cardinality({i \in DOMAIN processed_df :
                              processed_df[i].question_number = k}) = 1
        /\ \A i \in DOMAIN processed_df : processed_df[i] \in Range(df)

C8_Witness ==
    /\ Resolved
    /\ Len(df) = 2
    /\ df[1] # df[2]
    /\ df[1].question_number = df[2].question_number
    /\ processed_df = <<df[2]>>

\* C9 (as claimed): the resolver's list is in ascending numeric order of
\* question number.
C9_AscendingNumbers ==
    Resolved =>
        \A i, j \in DOMAIN processed_df :
            i < j => DigitsValue(processed_df[i].question_number)
                       < DigitsValue(processed_df[j].question_number)

\* C10: a call with N >= 1 that returns gives exactly N variants whose
\* variant_number values are 1, 2, ..., N in that order.
C10_VariantNumbers ==
    (Generated /\ num_variants >= 1) =>
        /\ Len(variants) = num_variants
        /\ \A k \in DOMAIN variants : variants[k].variant_number = k

C10_Witness ==
    /\ pc = "generated"
    /\ num_variants = 2
    /\ Len(variants) = 2
    /\ variants[2].variant_number = 2
    /\ variants[1].questions # variants[2].questions

\* C11 (as claimed): every returned variant has answer_key[i] equal to
\* questions[i].correct_answer with equal lengths, and the persisted answers
\* and weights fields each list exactly one comma-separated entry per question,
\* entry i being question i's correct answer and weight.
C11_KeyAligned ==
    /\ Generated =>
          \A k \in DOMAIN variants :
              /\ Len(variants[k].answer_key) = Len(variants[k].questions)
              /\ \A i \in DOMAIN variants[k].questions :
                    variants[k].answer_key[i]
                      = variants[k].questions[i].correct_answer
    /\ Persisted =>
          \A k \in DOMAIN variants :
              LET answers == split(answer_key_file.key_df[k].Answers)
                  weights == split(answer_key_file.key_df[k].Weights)
                  questions == variants[k].questions
              IN /\ Len(answers) = Len(questions)
                 /\ Len(weights) = Len(questions)
                 /\ \A i \in DOMAIN questions :
                       /\ answers[i] = questions[i].correct_answer
                       /\ weights[i] = str_float(questions[i].weight)

\* A choice row of the bank with fewer than 2 non-empty option cells
FewOptions(row) == row.is_test_question /\ Len(built_options(row)) < 2

\* C12: a pass of the generation loop that selects a choice question with
\* fewer than 2 non-empty options ends the call in an error with no variants
\* handed over, also when earlier passes had built variants; no variant is
\* ever built from such a question.
C12_FewOptionsAbort ==
    /\ pc = "generate_error" => variants = <<>>
    /\ (variant_num >= 1 /\ \E i \in DOMAIN shuffled_df : FewOptions(shuffled_df[i]))
          => (pc = "generate_error" /\ variants = <<>>)

C12_Witness ==
    /\ pc = "generate_error"
    /\ num_variants = 2
    /\ variant_num = 2
    /\ variants = <<>>
    /\ \E i \in DOMAIN shuffled_df : FewOptions(shuffled_df[i])
    /\ \E j \in DOMAIN df : ~FewOptions(df[j])

\* The letter is one of the first n letters of the option alphabet
Designates(letter, n) ==
    \E m \in 1..Min(n, Len(ukrainian_letters)) : ukrainian_letters[m] = letter

\* C13 (as claimed): no variant is built from a choice question one of whose
\* correct-answer letters designates none of the options built for it.
C13_UnmappableAborts ==
    variants # <<>> =>
        \A i \in DOMAIN shuffled_df :
            shuffled_df[i].is_test_question =>
                \A k \in DOMAIN shuffled_df[i].correct_answer :
                    Designates(upper_char(shuffled_df[i].correct_answer[k]),
                               Len(built_options(shuffled_df[i])))

\* C14 (as claimed): a call of generate_test_variants that returns was asked
\* for at least one variant and returns a non-empty list.
C14_NoEmptyBatch ==
    Generated => (num_variants >= 1 /\ variants # <<>>)

\* C15 (as claimed): a call against a key row whose answers and weights fields
\* split into different numbers of entries ends in an error.
C15_LengthMismatchRaises ==
    (/\ pc = "checked"
     /\ CalledRow # <<>>
     /\ Len(split(CalledRow[1].Answers)) # Len(split(CalledRow[1].Weights)))
        => result.status = "error"

\* C16 (as claimed): for a choice question whose persisted correct answer is
\* one letter, the question is marked correct exactly when the submission,
\* trimmed and upper-cased, is that one letter.
C16_SingleLetterExact ==
    \A i \in DOMAIN Items :
        (/\ Items[i].is_test_question
         /\ Len(Items[i].correct_answer) = 1
         /\ IsLetters(upper(Items[i].correct_answer)))
            => (Items[i].is_correct
                  <=> upper(strip(call.student_answers[i]))
                        = upper(Items[i].correct_answer))

\* Trimming and case folding of a free-text answer
Folded(s) == [k \in DOMAIN strip(s) |-> lower_char(strip(s)[k])]

\* C17: for a question graded as free text (no options recorded for it) a
\* non-empty submission is marked correct exactly when it equals the persisted
\* correct answer after trimming and case folding both.
C17_OpenTrimFold ==
    Returned =>
        \A i \in DOMAIN Items :
            (~Items[i].is_test_question /\ strip(call.student_answers[i]) # <<>>)
                => (Items[i].is_correct
                      <=> Folded(call.student_answers[i])
                            = Folded(split(CalledRow[1].Answers)[i]))

C17_Witness ==
    \E i, j \in DOMAIN Items :
        /\ ~Items[i].is_test_question
        /\ call.student_answers[i] = <<" ", "A">>
        /\ Items[i].correct_answer = <<"a">>
        /\ Items[i].is_correct
        /\ ~Items[j].is_test_question
        /\ call.student_answers[j] = <<"B">>
        /\ Items[j].correct_answer = <<"a", "b">>
        /\ ~Items[j].is_correct

RECURSIVE GCD(_, _)
GCD(a, b) == IF b = 0 THEN a ELSE GCD(b, a % b)

Abs(x) == IF x < 0 THEN 0 - x ELSE x

\* A rational in lowest terms with a positive denominator
RatNorm(a) ==
    LET g == GCD(Abs(a.n), Abs(a.d))
        sign == IF a.d < 0 THEN 0 - 1 ELSE 1
    IN Rat(sign * (a.n \div g), sign * (a.d \div g))

\* C18 (as claimed): in every result weighted_score is the sum of the points,
\* score_percentage is weighted_score / 12 * 100, and correct_answers is the
\* number of questions whose points are greater than 0.
C18_Aggregation ==
    Returned =>
        LET score == RatNorm(result.weighted_score)
        IN /\ score = RatNorm(RatSum([i \in DOMAIN Items |-> Items[i].points]))
           /\ RatNorm(result.score_percentage)
                = RatNorm(Rat(score.n * 100, score.d * 12))
           /\ result.correct_answers
                = Cardinality({i \in DOMAIN Items :
                                  RatNorm(Items[i].points).n > 0})

\* The outcome of a grading call as the claim compares it: failure, or the
\* is_correct and points of every question
Outcome(r) ==
    [status |-> r.status,
     items |-> IF r.status = "ok"
               THEN [i \in DOMAIN r.detailed_results |->
                        <<r.detailed_results[i].is_correct,
                          r.detailed_results[i].points>>]
               ELSE <<>>]

\* C19 (as claimed): the call gives the same outcome against every key file
\* whose answers and weights fields are those of the file graded, whatever its
\* detailed sheet holds.
C19_KeyFieldsOnly ==
    pc = "checked" =>
        \A dd \in DetailedSheets :
            Outcome(check_student_answers(
                        [extended |-> dd # <<>>,
                         key_df |-> answer_key_file.key_df,
                         detailed_df |-> dd],
                        call.variant_number, call.student_answers))
              = Outcome(result)

\* C20 (as claimed): with mode 'easy_to_hard' the questions of a built variant
\* are in non-decreasing weight and questions of equal weight keep the order
\* of the resolver output.
C20_EasyToHardStable ==
    (variants # <<>> /\ question_shuffle_mode = "easy_to_hard") =>
        /\ \A a, b \in DOMAIN shuffled_df :
              a < b => shuffled_df[a].weight <= shuffled_df[b].weight
        /\ shuffled_df
             = sorted_by(processed_df,
                         [i \in DOMAIN processed_df |-> processed_df[i].weight])

\* The option positions of a bank row that its correct answer marks
MarkedPositions(row) ==
    {m \in DOMAIN built_options(row) :
        m <= Len(ukrainian_letters)
        /\ ukrainian_letters[m] \in Range(upper(strip(row.correct_answer)))}

\* C21 (as claimed): the options of every choice question of a built variant
\* are the row's non-empty option cells, in source order with the original
\* correct letters when the answer shuffle mode is 'none', and a permutation
\* of them when it is 'random'.
C21_OptionsKept ==
    variants # <<>> =>
        \A i \in DOMAIN shuffled_df :
            shuffled_df[i].is_test_question =>
                LET q == LastVariant.questions[i]
                    cells == built_options(shuffled_df[i])
                IN /\ answer_shuffle_mode = "none" =>
                        /\ q.options = cells
                        /\ Range(q.correct_answer)
                             = Range(upper(strip(shuffled_df[i].correct_answer)))
                   /\ answer_shuffle_mode = "random" =>
                        \E p \in Perms(Len(cells)) :
                            q.options = [j \in DOMAIN cells |-> cells[p[j]]]

\* The question texts of the bank rows numbered key
AlternativesOf(key) == {df[j].question : j \in group(df, key)}

\* C22: every variant of a batch holds, for each question number of the bank,
\* exactly one of that number's alternatives, picked for that variant; the
\* variants of one batch need not hold the same alternative.
C22_PerVariantPick ==
    \A k \in DOMAIN variants :
        /\ Len(variants[k].questions) = Cardinality(group_keys(df))
        /\ \A key \in group_keys(df) :
              Cardinality({i \in DOMAIN variants[k].questions :
                              variants[k].questions[i].question_text
                                \in AlternativesOf(key)}) = 1

C22_Witness ==
    /\ pc = "generated"
    /\ Len(variants) = 2
    /\ Len(df) = 2
    /\ df[1].question_number = df[2].question_number
    /\ variants[1].questions[1].question_text = df[2].question
    /\ variants[2].questions[1].question_text = df[1].question
    /\ df[1].question # df[2].question

\* C23 (as claimed): every weight read from the bank and carried into a
\* variant is greater than 0, and grading a generated key never divides by a
\* weight sum of 0.
C23_PositiveWeights ==
    /\ \A i \in DOMAIN df : df[i].weight > 0
    /\ \A k \in DOMAIN variants :
          \A i \in DOMAIN variants[k].questions :
              variants[k].questions[i].weight > 0
    /\ (pc = "checked" /\ result.status = "error")
          => result.error # "ZeroDivisionError"

\* C24: a call for a variant number that has no row in the key ends in the
\* error that names that variant; no result is returned for it.
C24_UnknownVariantRaises ==
    (pc = "checked" /\ CalledRow = <<>>)
        => /\ result.status = "error"
           /\ result.error = "VariantNotFound"
           /\ result.variant_number = call.variant_number

C24_Witness ==
    /\ pc = "checked"
    /\ call.variant_number = 2
    /\ answer_key_file.key_df # <<>>
    /\ result.status = "error"
    /\ result.error = "VariantNotFound"

\* C25 (as claimed): grading a generated variant's own answer_key against the
\* key file written from it succeeds with every question correct,
\* weighted_score 12 and score_percentage 100.
C25_SelfConsistent ==
    (pc = "checked" /\ variants # <<>>) =>
        /\ result.status = "ok"
        /\ \A i \in DOMAIN Items : Items[i].is_correct
        /\ RatNorm(result.weighted_score) = Rat(12, 1)
        /\ RatNorm(result.score_percentage) = Rat(100, 1)

\* C26: in every question order mode the questions of a built variant are a
\* permutation of the resolver's output of that pass, each with its own
\* text, weight and type.
C26_QuestionsPermuted ==
    variants # <<>> =>
        /\ Len(LastVariant.questions) = Len(processed_df)
        /\ \E p \in Perms(Len(processed_df)) :
              \A i \in DOMAIN processed_df :
                  /\ LastVariant.questions[i].question_text
                       = processed_df[p[i]].question
                  /\ LastVariant.questions[i].weight = processed_df[p[i]].weight
                  /\ LastVariant.questions[i].is_test_question
                       = processed_df[p[i]].is_test_question

C26_Witness ==
    /\ variants # <<>>
    /\ question_shuffle_mode = "full"
    /\ Len(processed_df) = 2
    /\ LastVariant.questions[1].question_text = processed_df[2].question
    /\ LastVariant.questions[2].question_text = processed_df[1].question
    /\ processed_df[1].weight # processed_df[2].weight

\* C27 (as claimed): the recomputed correct answer of every choice question
\* has as many distinct letters as the row has options marked correct.
C27_DistinctLetters ==
    variants # <<>> =>
        \A i \in DOMAIN shuffled_df :
            shuffled_df[i].is_test_question =>
                Cardinality(Range(LastVariant.questions[i].correct_answer))
                  = Cardinality(MarkedPositions(shuffled_df[i]))

\* C28 (as claimed): a call in which some question has options recorded in
\* the key and a non-empty student answer with a character outside the option
\* alphabet ends in an error.
C28_InvalidLetterRaises ==
    (/\ pc = "checked"
     /\ CalledRow # <<>>
     /\ \E i \in DOMAIN call.student_answers :
           /\ question_options_of(
                  detailed_info_of(answer_key_file, call.variant_number), i) # <<>>
           /\ strip(call.student_answers[i]) # <<>>
           /\ ~IsLetters(upper(strip(call.student_answers[i]))))
        => result.status = "error"

\* C29 (as claimed): the list either application passes to
\* check_student_answers has one answer per comma-separated field of the typed
\* line, the k-th field trimmed being the k-th answer and a blank field "".
C29_FieldsKept ==
    (pc = "checked" /\ entry # NoEntry) =>
        LET fields == split(entry.answers_text)
        IN call.student_answers = [k \in DOMAIN fields |-> strip(fields[k])]

\* a < b, a <= b on rationals in lowest terms with positive denominators
RatLeq(a, b) == a.n * b.d <= b.n * a.d

\* C30 (as claimed): in every result for a key whose weights are all positive
\* the scores lie in their ranges, weighted_score is 12 exactly when every
\* question is correct and 0 exactly when none is.
C30_ScoreBounds ==
    (Returned /\ \A w \in Range(decode_weights(CalledRow[1].Weights)) : w > 0) =>
        LET score == RatNorm(result.weighted_score)
            percentage == RatNorm(result.score_percentage)
        IN /\ RatLeq(RatZero, score) /\ RatLeq(score, Rat(12, 1))
           /\ RatLeq(RatZero, percentage) /\ RatLeq(percentage, Rat(100, 1))
           /\ 0 <= result.correct_answers
           /\ result.correct_answers <= result.total_questions
           /\ (score = Rat(12, 1)) <=> (\A i \in DOMAIN Items : Items[i].is_correct)
           /\ (score = RatZero) <=> (\A i \in DOMAIN Items : ~Items[i].is_correct)

====
